---- MODULE Spec2Model ----
(***************************************************************************)
(* Quiz generation and quiz lifecycle of the Study Buddy application:      *)
(*   - QuestionGenerator (src/src/generator/question_generator.py): the    *)
(*     bounded retry loop around the model client and the output parser,   *)
(*     and the domain checks of generate_mcq / generate_fill_blank;        *)
(*   - MCQQuestion / FillBlankQuestion (src/src/models/question_schemas.py)*)
(*     with the clean_question normalisation;                              *)
(*   - QuizManager (src/src/utils/helpers.py): generate_questions,         *)
(*     attempt_quiz, evaluate_quiz;                                        *)
(*   - main (src/application.py): one script run per user event.           *)
(*                                                                         *)
(* Text is a sequence of one-character strings, so that substring search,  *)
(* strip() and lower() are computed and not assumed.                       *)
(***************************************************************************)
EXTENDS Integers, Sequences, FiniteSets, TLC

VARIABLES
    questions,      \* QuizManager.questions
    user_answers,   \* QuizManager.user_answers
    results,        \* QuizManager.results
    ret,            \* return value of the last QuizManager call
    op,             \* the last operation performed, with its arguments and, for
                    \* generate_questions, the lengths of the lists it found
    gen_log,        \* what each generator call of the last generate_questions returned or raised
    llm_script,     \* scripted model client kept by a test harness (<<>> when none is kept)
    llm_calls,      \* invocations the kept client has seen
    quiz_generated, \* st.session_state.quiz_generated
    quiz_submitted, \* st.session_state.quiz_submitted
    rerun_trigger,  \* st.session_state.rerun_trigger
    widget,         \* value of the answer widget of each rendered question
    trace,          \* log lines, invocations and raise of the harness's last generation
    fs              \* the results directory: whether it exists, and the files in it

vars == <<questions, user_answers, results, ret, op, gen_log, llm_script,
          llm_calls, quiz_generated, quiz_submitted, rerun_trigger, widget,
          trace, fs>>

----------------------------------------------------------------------------
(* Bounds and program constants *)

MAX_RETRIES == 3

\* longest run of failing responses a scripted client starts with
MaxFail == 4
\* largest num_questions passed to generate_questions
MaxCount == 3
\* cap on len(user_answers); attempt_quiz is not taken beyond it
MaxAnswers == 3
\* longest response script of a client in a quiz session
MaxScriptLen == 2

Min(a, b) == IF a < b THEN a ELSE b

----------------------------------------------------------------------------
(* Text *)

MARKER == <<"_", "_", "_", "_", "_">>

\* Python: needle in text
Contains(text, needle) ==
    \E i \in 0..(Len(text) - Len(needle)) :
        SubSeq(text, i + 1, i + Len(needle)) = needle

IsSpace(c) == c \in {" ", "\t", "\n"}

\* Python: text.strip()
Strip(text) ==
    LET keep == {i \in 1..Len(text) : ~IsSpace(text[i])}
    IN  IF keep = {} THEN <<>>
        ELSE LET lo == CHOOSE i \in keep : \A j \in keep : i <= j
                 hi == CHOOSE i \in keep : \A j \in keep : j <= i
             IN  SubSeq(text, lo, hi)

LowerChar(c) ==
    CASE c = "A" -> "a"
      [] c = "B" -> "b"
      [] c = "C" -> "c"
      [] OTHER -> c

\* Python: text.lower()
Lower(text) == [i \in 1..Len(text) |-> LowerChar(text[i])]

----------------------------------------------------------------------------
(* Question schemas and the output parser *)

None == [tag |-> "None"]

\* clean_question: a dict gives its 'description', or str(dict) when it has
\* none; anything else is str(v).  A dict is modelled with one key.
StrOfDict(v) == <<"{">> \o v.val \o <<"}">>

clean_question(v) ==
    IF v.tag = "dict"
    THEN IF v.key = "description" THEN v.val ELSE StrOfDict(v)
    ELSE v.text

McqFields == {"question", "options", "correct_answer"}
FillBlankFields == {"question", "answer"}

\* PydanticOutputParser(pydantic_object=MCQQuestion).parse(content)
ParseMcq(resp) ==
    IF resp.tag = "json" /\ DOMAIN resp.obj = McqFields
    THEN [ok |-> TRUE,
          obj |-> [question |-> clean_question(resp.obj.question),
                   options |-> resp.obj.options,
                   correct_answer |-> resp.obj.correct_answer]]
    ELSE [ok |-> FALSE, obj |-> None]

\* PydanticOutputParser(pydantic_object=FillBlankQuestion).parse(content)
ParseFillBlank(resp) ==
    IF resp.tag = "json" /\ DOMAIN resp.obj = FillBlankFields
    THEN [ok |-> TRUE,
          obj |-> [question |-> clean_question(resp.obj.question),
                   answer |-> resp.obj.answer]]
    ELSE [ok |-> FALSE, obj |-> None]

Parse(question_type, resp) ==
    IF question_type = "Multiple Choice" THEN ParseMcq(resp) ELSE ParseFillBlank(resp)

----------------------------------------------------------------------------
(* Model client: a script of responses, the last one repeating for ever *)

Raise == [tag |-> "raise"]        \* llm.invoke raises
Garbage == [tag |-> "garbage"]    \* llm.invoke returns text the parser rejects
Json(obj) == [tag |-> "json", obj |-> obj]

\* the response to the i-th invocation (1-based) of a scripted client
Respond(script, i) == script[Min(i, Len(script))]

\* the exception an attempt ends with
AttemptError(resp) == IF resp.tag = "raise" THEN "invoke_error" ELSE "parse_error"

----------------------------------------------------------------------------
(* QuestionGenerator *)

NoError == [kind |-> "none", attempts |-> 0, cause |-> "none"]

\* what the logger, the client and the caller see of _retry_and_parse: a log
\* line, a client invocation, or the exception raised
Event(ev, attempt, error) == [ev |-> ev, attempt |-> attempt, error |-> error]

\* _retry_and_parse with a loop that runs one attempt too many
RECURSIVE RetryLoopOneMore(_, _, _, _)
RetryLoopOneMore(question_type, script, pos, attempt) ==
    IF attempt >= MAX_RETRIES + 1
    THEN [ok |-> TRUE, obj |-> None, err |-> NoError, calls |-> attempt,
          events |-> <<>>]
    ELSE LET resp == Respond(script, pos + attempt + 1)
             parsed == Parse(question_type, resp)
             started == <<Event("log_attempt", attempt + 1, "none"),
                          Event("invoke", attempt + 1, "none")>>
             failed == Append(started,
                              Event("log_error", attempt + 1, AttemptError(resp)))
         IN  IF resp.tag # "raise" /\ parsed.ok
             THEN [ok |-> TRUE, obj |-> parsed.obj, err |-> NoError,
                   calls |-> attempt + 1,
                   events |-> Append(started,
                                     Event("log_parsed", attempt + 1, "none"))]
             ELSE IF attempt = MAX_RETRIES
                  THEN [ok |-> FALSE, obj |-> None,
                        err |-> [kind |-> "exhausted", attempts |-> MAX_RETRIES,
                                 cause |-> AttemptError(resp)],
                        calls |-> attempt + 1,
                        events |-> Append(failed,
                                          Event("raise", MAX_RETRIES, AttemptError(resp)))]
                  ELSE LET rest == RetryLoopOneMore(question_type, script, pos, attempt + 1)
                       IN  [rest EXCEPT !.events = failed \o @]

\* _retry_and_parse wrapping the error of the attempt before the last one
RECURSIVE RetryLoopPreviousCause(_, _, _, _)
RetryLoopPreviousCause(question_type, script, pos, attempt) ==
    IF attempt >= MAX_RETRIES
    THEN [ok |-> TRUE, obj |-> None, err |-> NoError, calls |-> attempt,
          events |-> <<>>]
    ELSE LET resp == Respond(script, pos + attempt + 1)
             parsed == Parse(question_type, resp)
             started == <<Event("log_attempt", attempt + 1, "none"),
                          Event("invoke", attempt + 1, "none")>>
             failed == Append(started,
                              Event("log_error", attempt + 1, AttemptError(resp)))
         IN  IF resp.tag # "raise" /\ parsed.ok
             THEN [ok |-> TRUE, obj |-> parsed.obj, err |-> NoError,
                   calls |-> attempt + 1,
                   events |-> Append(started,
                                     Event("log_parsed", attempt + 1, "none"))]
             ELSE IF attempt = MAX_RETRIES - 1
                  THEN [ok |-> FALSE, obj |-> None,
                        err |-> [kind |-> "exhausted", attempts |-> MAX_RETRIES,
                                 cause |-> AttemptError(Respond(script, pos + attempt))],
                        calls |-> attempt + 1,
                        events |-> Append(failed,
                                          Event("raise", MAX_RETRIES,
                                                AttemptError(Respond(script, pos + attempt))))]
                  ELSE LET rest == RetryLoopPreviousCause(question_type, script, pos,
                                                          attempt + 1)
                       IN  [rest EXCEPT !.events = failed \o @]

\* the for loop of _retry_and_parse from iteration `attempt` on; `pos` client
\* invocations were made before the loop started
RECURSIVE RetryLoop(_, _, _, _)
RetryLoop(question_type, script, pos, attempt) ==
    IF attempt >= MAX_RETRIES
    THEN [ok |-> TRUE, obj |-> None, err |-> NoError, calls |-> attempt,
          events |-> <<>>]
    ELSE LET resp == Respond(script, pos + attempt + 1)
             parsed == Parse(question_type, resp)
             started == <<Event("log_attempt", attempt + 1, "none"),
                          Event("invoke", attempt + 1, "none")>>
             failed == Append(started,
                              Event("log_error", attempt + 1, AttemptError(resp)))
         IN  IF resp.tag # "raise" /\ parsed.ok
             THEN [ok |-> TRUE, obj |-> parsed.obj, err |-> NoError,
                   calls |-> attempt + 1,
                   events |-> Append(started,
                                     Event("log_parsed", attempt + 1, "none"))]
             ELSE IF attempt = MAX_RETRIES - 1
                  THEN [ok |-> FALSE, obj |-> None,
                        err |-> [kind |-> "exhausted", attempts |-> MAX_RETRIES,
                                 cause |-> AttemptError(resp)],
                        calls |-> attempt + 1,
                        events |-> Append(failed,
                                          Event("raise", MAX_RETRIES, AttemptError(resp)))]
                  ELSE LET rest == RetryLoop(question_type, script, pos, attempt + 1)
                       IN  [rest EXCEPT !.events = failed \o @]

_retry_and_parse(question_type, script, pos) == RetryLoop(question_type, script, pos, 0)

InSeq(x, s) == \E i \in 1..Len(s) : s[i] = x

ValidationError == [kind |-> "validation", attempts |-> 0, cause |-> "ValueError"]
AttributeError == [kind |-> "attribute", attempts |-> 0, cause |-> "AttributeError"]

\* the extra check of generate_mcq without the membership test
McqInvalidCountOnly(question) == Len(question.options) # 4

\* the extra check of generate_mcq, TRUE when the question is rejected
McqInvalid(question) ==
    Len(question.options) # 4 \/ ~InSeq(question.correct_answer, question.options)

\* the extra check of generate_fill_blank looking for four underscores
FillBlankInvalidShortMarker(question) ==
    ~Contains(question.question, <<"_", "_", "_", "_">>)

\* the extra check of generate_fill_blank, TRUE when the question is rejected
FillBlankInvalid(question) == ~Contains(question.question, MARKER)

\* generate_mcq: what the caller gets (a question, or the wrapped error) and
\* how many client invocations it took
generate_mcq(script, pos) ==
    LET r == _retry_and_parse("Multiple Choice", script, pos)
    IN  IF ~r.ok THEN [ok |-> FALSE, q |-> None, err |-> r.err, calls |-> r.calls,
                       events |-> r.events]
        ELSE IF r.obj = None
        THEN [ok |-> FALSE, q |-> None, err |-> AttributeError, calls |-> r.calls,
              events |-> r.events]
        ELSE IF McqInvalid(r.obj)
        THEN [ok |-> FALSE, q |-> None, err |-> ValidationError, calls |-> r.calls,
              events |-> r.events]
        ELSE [ok |-> TRUE, q |-> r.obj, err |-> NoError, calls |-> r.calls,
              events |-> r.events]

\* generate_fill_blank asking the model again when the blank is missing
generate_fill_blank_again(script, pos) ==
    LET r == _retry_and_parse("Fill in the Blank", script, pos)
    IN  IF ~r.ok THEN [ok |-> FALSE, q |-> None, err |-> r.err, calls |-> r.calls,
                       events |-> r.events]
        ELSE IF r.obj = None
        THEN [ok |-> FALSE, q |-> None, err |-> AttributeError, calls |-> r.calls,
              events |-> r.events]
        ELSE IF FillBlankInvalid(r.obj)
        THEN LET r2 == _retry_and_parse("Fill in the Blank", script, pos + r.calls)
             IN  IF r2.ok /\ r2.obj # None /\ ~FillBlankInvalid(r2.obj)
                 THEN [ok |-> TRUE, q |-> r2.obj, err |-> NoError,
                       calls |-> r.calls + r2.calls, events |-> r.events \o r2.events]
                 ELSE [ok |-> FALSE, q |-> None, err |-> ValidationError,
                       calls |-> r.calls + r2.calls, events |-> r.events \o r2.events]
        ELSE [ok |-> TRUE, q |-> r.obj, err |-> NoError, calls |-> r.calls,
              events |-> r.events]

generate_fill_blank(script, pos) ==
    LET r == _retry_and_parse("Fill in the Blank", script, pos)
    IN  IF ~r.ok THEN [ok |-> FALSE, q |-> None, err |-> r.err, calls |-> r.calls,
                       events |-> r.events]
        ELSE IF r.obj = None
        THEN [ok |-> FALSE, q |-> None, err |-> AttributeError, calls |-> r.calls,
              events |-> r.events]
        ELSE IF FillBlankInvalid(r.obj)
        THEN [ok |-> FALSE, q |-> None, err |-> ValidationError, calls |-> r.calls,
              events |-> r.events]
        ELSE [ok |-> TRUE, q |-> r.obj, err |-> NoError, calls |-> r.calls,
              events |-> r.events]

----------------------------------------------------------------------------
(* QuizManager.generate_questions *)

\* the MCQ record with the first option stored as the correct answer
McqRecordFirstOption(question) ==
    [type |-> "MCQ", question |-> question.question,
     options |-> question.options, correct_answer |-> question.options[1]]

McqRecord(question) ==
    [type |-> "MCQ", question |-> question.question,
     options |-> question.options, correct_answer |-> question.correct_answer]

FillBlankRecord(question) ==
    [type |-> "Fill in the Blank", question |-> question.question,
     correct_answer |-> question.answer]

\* what a generator call looks like to its caller
Seen(out) == [ok |-> out.ok, q |-> out.q, err |-> out.err]

\* generate_questions going on with the next question after a failure
RECURSIVE GenerateLoopGoingOn(_, _, _, _, _, _, _)
GenerateLoopGoingOn(question_type, num_questions, script, i, qs, log, calls) ==
    IF i >= num_questions
    THEN [questions |-> qs, ret |-> \A j \in 1..Len(log) : log[j].ok,
          log |-> log, calls |-> calls, events |-> <<>>]
    ELSE LET out == IF question_type = "Multiple Choice"
                    THEN generate_mcq(script, calls)
                    ELSE generate_fill_blank(script, calls)
             rest == GenerateLoopGoingOn(question_type, num_questions, script, i + 1,
                         IF ~out.ok THEN qs
                         ELSE Append(qs, IF question_type = "Multiple Choice"
                                         THEN McqRecord(out.q)
                                         ELSE FillBlankRecord(out.q)),
                         Append(log, Seen(out)), calls + out.calls)
         IN  [rest EXCEPT !.events = out.events \o @]

\* the for loop of generate_questions from iteration i on (0-based), with
\* the questions appended, the generator calls seen and the client
\* invocations made so far
RECURSIVE GenerateLoop(_, _, _, _, _, _, _)
GenerateLoop(question_type, num_questions, script, i, qs, log, calls) ==
    IF i >= num_questions
    THEN [questions |-> qs, ret |-> TRUE, log |-> log, calls |-> calls,
          events |-> <<>>]
    ELSE LET out == IF question_type = "Multiple Choice"
                    THEN generate_mcq(script, calls)
                    ELSE generate_fill_blank(script, calls)
         IN  IF ~out.ok
             THEN [questions |-> qs, ret |-> FALSE,
                   log |-> Append(log, Seen(out)), calls |-> calls + out.calls,
                   events |-> out.events]
             ELSE LET rest == GenerateLoop(question_type, num_questions, script, i + 1,
                                  Append(qs, IF question_type = "Multiple Choice"
                                             THEN McqRecord(out.q)
                                             ELSE FillBlankRecord(out.q)),
                                  Append(log, Seen(out)), calls + out.calls)
                  IN  [rest EXCEPT !.events = out.events \o @]

\* generate_questions that clears questions only
generate_questions_keeping(question_type, num_questions, script) ==
    LET r == GenerateLoop(question_type, num_questions, script, 0, <<>>, <<>>, 0)
    IN  [questions |-> r.questions, user_answers |-> user_answers, results |-> results,
         ret |-> r.ret, log |-> r.log, calls |-> r.calls, events |-> r.events]

\* generate_questions that clears questions and user_answers, not results
generate_questions_stale_results(question_type, num_questions, script) ==
    LET r == GenerateLoop(question_type, num_questions, script, 0, <<>>, <<>>, 0)
    IN  [questions |-> r.questions, user_answers |-> <<>>, results |-> results,
         ret |-> r.ret, log |-> r.log, calls |-> r.calls, events |-> r.events]

\* generate_questions: the three lists are cleared, then the loop runs
generate_questions(question_type, num_questions, script) ==
    LET r == GenerateLoop(question_type, num_questions, script, 0, <<>>, <<>>, 0)
    IN  [questions |-> r.questions, user_answers |-> <<>>, results |-> <<>>,
         ret |-> r.ret, log |-> r.log, calls |-> r.calls, events |-> r.events]

----------------------------------------------------------------------------
(* QuizManager.attempt_quiz and QuizManager.evaluate_quiz *)

\* attempt_quiz putting the answers of the latest render first
attempt_quiz_prepending(qs, answers, values) ==
    [i \in 1..Len(qs) |-> values[i]] \o answers

\* attempt_quiz: one append per question, of the value its widget returns
attempt_quiz(qs, answers, values) ==
    answers \o [i \in 1..Len(qs) |-> values[i]]

\* is_correct with the fill-blank answers lower-cased but not stripped
IsCorrectNoStrip(q, user_ans) ==
    IF q.type = "MCQ"
    THEN user_ans = q.correct_answer
    ELSE Lower(user_ans) = Lower(q.correct_answer)

\* is_correct of one question and one answer
IsCorrect(q, user_ans) ==
    IF q.type = "MCQ"
    THEN user_ans = q.correct_answer
    ELSE Lower(Strip(user_ans)) = Lower(Strip(q.correct_answer))

\* the result_dict numbered from 0, as enumerate counts
ResultDictZeroBased(i, q, user_ans) ==
    [question_number |-> i - 1,
     question |-> q.question,
     question_type |-> q.type,
     user_answer |-> user_ans,
     correct_answer |-> q.correct_answer,
     is_correct |-> IsCorrect(q, user_ans),
     options |-> IF q.type = "MCQ" THEN q.options ELSE <<>>]

\* the result_dict built for the i-th pair (1-based) of zip(questions, user_answers)
ResultDict(i, q, user_ans) ==
    [question_number |-> i,
     question |-> q.question,
     question_type |-> q.type,
     user_answer |-> user_ans,
     correct_answer |-> q.correct_answer,
     is_correct |-> IsCorrect(q, user_ans),
     options |-> IF q.type = "MCQ" THEN q.options ELSE <<>>]

\* evaluate_quiz: results rebuilt from zip(questions, user_answers)
\* evaluation pairing each question with the answer of the latest render
evaluate_quiz_latest(qs, answers) ==
    IF Len(answers) >= Len(qs)
    THEN [i \in 1..Len(qs) |->
              ResultDict(i, qs[i], answers[Len(answers) - Len(qs) + i])]
    ELSE <<>>

evaluate_quiz(qs, answers) ==
    [i \in 1..Min(Len(qs), Len(answers)) |-> ResultDict(i, qs[i], answers[i])]

----------------------------------------------------------------------------
(* QuizManager.generate_result_dataframe and QuizManager.save_to_csv *)

\* generate_result_dataframe: an empty frame, or one row per result dict
generate_result_dataframe(res) ==
    IF res = <<>> THEN [columns |-> {}, rows |-> <<>>]
    ELSE [columns |-> DOMAIN res[1], rows |-> res]

\* how a frame shows to the caller (results_df.empty)
FrameRepr(df) == IF df.rows = <<>> THEN "DataFrame(empty)" ELSE "DataFrame"

\* what the file system does to a save: nothing special, os.makedirs raises,
\* or DataFrame.to_csv raises
IoOutcomes == {"ok", "makedirs_error", "to_csv_error"}

\* results/<filename_prefix>_<timestamp>.csv
FullPath(stamp) == "results/quiz_results_" \o ToString(stamp) \o ".csv"

\* save_to_csv writing a file also when there are no results
save_to_csv_unchecked(res, files, io, stamp) ==
    IF io = "makedirs_error"
    THEN [ret |-> "raise OSError", fs |-> files]
    ELSE LET made == [files EXCEPT !.dir = TRUE]
         IN  IF io = "to_csv_error"
             THEN [ret |-> "None", fs |-> made]
             ELSE [ret |-> FullPath(stamp),
                   fs |-> [made EXCEPT !.files = @ \cup {FullPath(stamp)}]]

\* save_to_csv: what the caller gets (None, the path, or the exception of
\* os.makedirs, which no try block covers) and the file system afterwards
save_to_csv(res, files, io, stamp) ==
    IF res = <<>>
    THEN [ret |-> "None", fs |-> files]
    ELSE LET df == generate_result_dataframe(res)
         IN  IF io = "makedirs_error"
             THEN [ret |-> "raise OSError", fs |-> files]
             ELSE LET made == [files EXCEPT !.dir = TRUE]
                  IN  IF io = "to_csv_error"
                      THEN [ret |-> "None", fs |-> made]
                      ELSE [ret |-> FullPath(stamp),
                            fs |-> [made EXCEPT !.files = @ \cup {FullPath(stamp)}]]

----------------------------------------------------------------------------
(* Inputs: texts, model outputs, client scripts, widget values *)

WORD == <<"a">>
PARTIAL == <<"_", "_", "_", "_">>
Parts == {WORD, PARTIAL, MARKER}

\* most parts a generated question text is put together from
MaxParts == 2

RECURSIVE TextsOf(_)
TextsOf(n) ==
    IF n = 0 THEN {<<>>}
    ELSE LET shorter == TextsOf(n - 1)
         IN  shorter \cup {t \o part : t \in shorter, part \in Parts}

Texts == TextsOf(MaxParts)

Str(t) == [tag |-> "str", text |-> t]
Dict(k, t) == [tag |-> "dict", key |-> k, val |-> t]

OptA == <<"A">>
OptLowerA == <<"a">>
OptSpaceA == <<" ", "A">>
OptB == <<"B">>
OptC == <<"C">>

FourOptions == <<OptA, OptLowerA, OptSpaceA, OptB>>
FourWithRepeat == <<OptA, OptA, OptB, OptC>>
ThreeOptions == <<OptA, OptLowerA, OptB>>
FiveOptions == <<OptA, OptLowerA, OptSpaceA, OptB, OptC>>

McqObjects ==
    {[question |-> rq, options |-> os, correct_answer |-> c] :
        rq \in {Str(WORD), Dict("description", WORD), Dict("text", WORD)},
        os \in {FourOptions, FourWithRepeat, ThreeOptions, FiveOptions},
        c \in {OptA, OptLowerA, OptC}}

AnswerAb == <<"A", "b">>
AnswerPadded == <<" ", "a", "B">>

\* a sentence with two blanks
TwoBlanks == MARKER \o WORD \o MARKER

FillBlankObjects ==
    {[question |-> rq, answer |-> AnswerAb] :
        rq \in {Str(t) : t \in Texts \cup {TwoBlanks}}
               \cup {Dict(k, t) : k \in {"description", "text"},
                                  t \in {WORD \o MARKER, WORD}}}

\* k failing responses, raising and unparsable in turn
FailPrefix(k, first) ==
    [i \in 1..k |-> IF (i % 2 = 1) = (first = "raise") THEN Raise ELSE Garbage]

FailPrefixes == {FailPrefix(k, first) : k \in 0..MaxFail, first \in {"raise", "garbage"}}

\* scripts of the generator harness: failures, then one model output for ever
\* (or failures for ever)
HarnessObjects(question_type) ==
    IF question_type = "Multiple Choice"
    THEN McqObjects \cup {[question |-> Str(MARKER), answer |-> AnswerAb]}
    ELSE FillBlankObjects
         \cup {[question |-> Str(MARKER), options |-> FourOptions, correct_answer |-> OptA]}

HarnessScripts(question_type) ==
    {f \o <<Json(obj)>> : f \in FailPrefixes, obj \in HarnessObjects(question_type)}
    \cup (FailPrefixes \ {<<>>})

QuestionTypes == {"Multiple Choice", "Fill in the Blank"}

\* model outputs in a run of the application: a failure or a valid question
AppResponses(question_type) ==
    IF question_type = "Multiple Choice"
    THEN {Raise,
          Json([question |-> Str(WORD), options |-> FourOptions, correct_answer |-> OptA])}
    ELSE {Garbage,
          Json([question |-> Str(WORD \o MARKER), answer |-> AnswerAb])}

\* model outputs of a quiz session
SessionResponses(question_type) ==
    AppResponses(question_type)
    \cup IF question_type = "Multiple Choice"
         THEN {Json([question |-> Dict("text", WORD), options |-> FourWithRepeat,
                     correct_answer |-> OptC]),
               Json([question |-> Str(WORD), options |-> ThreeOptions,
                     correct_answer |-> OptA])}
         ELSE {Json([question |-> Dict("description", MARKER \o MARKER),
                     answer |-> AnswerPadded]),
               Json([question |-> Str(WORD \o PARTIAL), answer |-> AnswerAb])}

RECURSIVE SeqsUpTo(_, _)
SeqsUpTo(S, n) ==
    IF n = 0 THEN {<<>>}
    ELSE LET shorter == SeqsUpTo(S, n - 1)
         IN  shorter \cup {Append(t, x) : t \in shorter, x \in S}

SessionScripts(question_type) ==
    SeqsUpTo(SessionResponses(question_type), MaxScriptLen) \ {<<>>}

\* every outcome generate_questions has in a quiz session, with its arguments
SessionOutcomes ==
    UNION {{[args |-> [question_type |-> t, num_questions |-> n],
             out |-> generate_questions(t, n, s)] :
               n \in 0..MaxCount, s \in SessionScripts(t)} :
           t \in QuestionTypes}

\* every outcome of a one-question generate_questions under the harness
HarnessOutcomes ==
    UNION {{[args |-> [question_type |-> t, num_questions |-> 1], script |-> s,
             out |-> generate_questions(t, 1, s)] : s \in HarnessScripts(t)} :
           t \in QuestionTypes}

AppScripts(question_type) ==
    SeqsUpTo(AppResponses(question_type), MaxScriptLen) \ {<<>>}

\* a client that fails twice before every model output it gives
RECURSIVE SlowScript(_, _)
SlowScript(question_type, n) ==
    IF n = 0 THEN <<>>
    ELSE <<Raise, Garbage>>
         \o <<CHOOSE r \in AppResponses(question_type) : r.tag = "json">>
         \o SlowScript(question_type, n - 1)

\* scripts of the batch harness
BatchScripts(question_type, n) ==
    AppScripts(question_type) \cup {SlowScript(question_type, n + 1)}

BatchOutcomes ==
    UNION {UNION {{[args |-> [question_type |-> t, num_questions |-> n], script |-> s,
                    out |-> generate_questions(t, n, s)] : s \in BatchScripts(t, n)} :
                  n \in 0..MaxCount} :
           t \in QuestionTypes}

\* every outcome generate_questions has in a run of the application
\* (st.number_input lets num_questions start at 1)
AppOutcomes ==
    UNION {{[args |-> [question_type |-> t, num_questions |-> n],
             out |-> generate_questions(t, n, s)] :
               n \in 1..MaxCount, s \in AppScripts(t)} :
           t \in QuestionTypes}

\* what a user can type into st.text_input
TextInputs == {<<>>, AnswerAb, <<" ", "a", "B", " ">>, <<"A", "b", "b">>}

\* the values the widget of question q can return
WidgetValues(q) ==
    IF q.type = "MCQ" THEN {q.options[i] : i \in 1..Len(q.options)} ELSE TextInputs

\* one value per question: the value sequences for the first n questions
RECURSIVE ChoicesUpTo(_, _)
ChoicesUpTo(qs, n) ==
    IF n = 0 THEN {<<>>}
    ELSE {Append(v, x) : v \in ChoicesUpTo(qs, n - 1), x \in WidgetValues(qs[n])}

WidgetChoices(qs) == ChoicesUpTo(qs, Len(qs))

----------------------------------------------------------------------------
(* State machine of the QuizManager, driven by any caller *)

NoArgs == [question_type |-> "none", num_questions |-> 0]

\* the lengths of the three lists, as a generate_questions call finds them
Found == [questions |-> Len(questions), user_answers |-> Len(user_answers),
          results |-> Len(results)]
NothingFound == [questions |-> 0, user_answers |-> 0, results |-> 0]

Call(name, args, found) == [name |-> name, args |-> args, found |-> found]

Init ==
    /\ questions = <<>>
    /\ user_answers = <<>>
    /\ results = <<>>
    /\ ret = "None"
    /\ op = Call("init", NoArgs, NothingFound)
    /\ gen_log = <<>>
    /\ llm_script = <<>>
    /\ llm_calls = 0
    /\ quiz_generated = FALSE
    /\ quiz_submitted = FALSE
    /\ rerun_trigger = FALSE
    /\ widget = <<>>
    /\ trace = <<>>
    /\ fs = [dir |-> FALSE, files |-> {}]

Bool(b) == IF b THEN "True" ELSE "False"

\* manager.generate_questions(generator, topic, question_type, difficulty, num_questions)
GenerateQuestions ==
    \E x \in SessionOutcomes :
        /\ questions' = x.out.questions
        /\ user_answers' = x.out.user_answers
        /\ results' = x.out.results
        /\ ret' = Bool(x.out.ret)
        /\ op' = Call("generate_questions", x.args, Found)
        /\ gen_log' = x.out.log
        /\ widget' = <<>>
        /\ UNCHANGED <<llm_script, llm_calls, quiz_generated, quiz_submitted,
                       rerun_trigger, trace, fs>>

\* manager.attempt_quiz()
AttemptQuiz ==
    /\ Len(user_answers) + Len(questions) <= MaxAnswers
    /\ \E values \in WidgetChoices(questions) :
        /\ user_answers' = attempt_quiz(questions, user_answers, values)
        /\ widget' = values
    /\ ret' = "None"
    /\ op' = Call("attempt_quiz", NoArgs, NothingFound)
    /\ UNCHANGED <<questions, results, gen_log, llm_script, llm_calls,
                   quiz_generated, quiz_submitted, rerun_trigger,
                   trace, fs>>

\* manager.evaluate_quiz()
EvaluateQuiz ==
    /\ results' = evaluate_quiz(questions, user_answers)
    /\ ret' = "None"
    /\ op' = Call("evaluate_quiz", NoArgs, NothingFound)
    /\ UNCHANGED <<questions, user_answers, gen_log, llm_script, llm_calls,
                   quiz_generated, quiz_submitted, rerun_trigger, widget,
                   trace, fs>>

Next == GenerateQuestions \/ AttemptQuiz \/ EvaluateQuiz

Spec == Init /\ [][Next]_vars

----------------------------------------------------------------------------
(* The QuizManager with its results shown and saved *)

\* most timestamps (seconds) a save can fall on
MaxStamp == 1

\* most questions of a quiz whose results are shown and saved
MaxQuiz == 2

\* the outcomes of generate_questions for such a quiz
QuizOutcomes == {x \in AppOutcomes : x.args.num_questions <= MaxQuiz}

\* manager.generate_questions(...) for a quiz that is then taken and saved
GenerateQuiz ==
    \E x \in QuizOutcomes :
        /\ questions' = x.out.questions
        /\ user_answers' = x.out.user_answers
        /\ results' = x.out.results
        /\ ret' = Bool(x.out.ret)
        /\ op' = Call("generate_questions", x.args, NothingFound)
        /\ gen_log' = x.out.log
        /\ widget' = <<>>
        /\ UNCHANGED <<llm_script, llm_calls, quiz_generated, quiz_submitted,
                       rerun_trigger, trace, fs>>

\* manager.generate_result_dataframe()
GenerateResultDataframe ==
    /\ ret' = FrameRepr(generate_result_dataframe(results))
    /\ op' = Call("generate_result_dataframe", NoArgs, NothingFound)
    /\ UNCHANGED <<questions, user_answers, results, gen_log, llm_script, llm_calls,
                   quiz_generated, quiz_submitted, rerun_trigger, widget, trace, fs>>

\* manager.save_to_csv(); os.makedirs(exist_ok=True) has nothing to do, and
\* nothing to fail on, when the directory is there
SaveToCsv ==
    \E io \in IoOutcomes, stamp \in 1..MaxStamp :
        /\ io = "makedirs_error" => ~fs.dir
        /\ LET r == save_to_csv(results, fs, io, stamp)
           IN  /\ ret' = r.ret
               /\ fs' = r.fs
        /\ op' = Call("save_to_csv", NoArgs, NothingFound)
        /\ UNCHANGED <<questions, user_answers, results, gen_log, llm_script,
                       llm_calls, quiz_generated, quiz_submitted, rerun_trigger,
                       widget, trace>>

ManagerNext ==
    GenerateQuiz \/ AttemptQuiz \/ EvaluateQuiz \/ GenerateResultDataframe \/ SaveToCsv

ManagerSpec == Init /\ [][ManagerNext]_vars

----------------------------------------------------------------------------
(* Generator harness: one-question batches with a scripted client that is kept *)

HarnessGenerate ==
    \E x \in HarnessOutcomes :
        /\ questions' = x.out.questions
        /\ user_answers' = x.out.user_answers
        /\ results' = x.out.results
        /\ ret' = Bool(x.out.ret)
        /\ op' = Call("generate_questions", x.args, Found)
        /\ gen_log' = x.out.log
        /\ llm_script' = x.script
        /\ llm_calls' = x.out.calls
        /\ widget' = <<>>
        /\ trace' = x.out.events
        /\ UNCHANGED <<quiz_generated, quiz_submitted, rerun_trigger, fs>>

\* batches of any size with a scripted client that is kept
HarnessBatch ==
    \E x \in BatchOutcomes :
        /\ questions' = x.out.questions
        /\ user_answers' = x.out.user_answers
        /\ results' = x.out.results
        /\ ret' = Bool(x.out.ret)
        /\ op' = Call("generate_questions", x.args, Found)
        /\ gen_log' = x.out.log
        /\ llm_script' = x.script
        /\ llm_calls' = x.out.calls
        /\ widget' = <<>>
        /\ trace' = x.out.events
        /\ UNCHANGED <<quiz_generated, quiz_submitted, rerun_trigger, fs>>

GenNext == HarnessGenerate \/ HarnessBatch

GenSpec == Init /\ [][GenNext]_vars

----------------------------------------------------------------------------
(* The application: every user event runs main() once, on the QuizManager  *)
(* kept in st.session_state                                                *)

\* most script runs that render the quiz form of one generated quiz
MaxRenders == 3

\* the quiz form rendered whenever the manager holds questions
QuizShownByQuestions(generated, qs) == Len(qs) > 0

\* the quiz form is rendered by a run that finds this true
QuizShown(generated, qs) == generated /\ Len(qs) > 0

\* st.radio starts on the first option, st.text_input empty
DefaultValue(q) == IF q.type = "MCQ" THEN q.options[1] ELSE <<>>

\* Values of the widgets of a newly generated quiz: the defaults, or for each
\* widget the value the widget of the same key had in the previous run when
\* it accepts that value (which of the two depends on how Streamlit
\* identifies widgets).
KeptValue(qs, i) ==
    IF /\ i <= Len(widget)
       /\ i <= Len(questions)
       /\ questions[i].type = qs[i].type
       /\ widget[i] \in WidgetValues(qs[i])
    THEN widget[i] ELSE DefaultValue(qs[i])

FreshValues(qs) ==
    {[i \in 1..Len(qs) |-> DefaultValue(qs[i])], [i \in 1..Len(qs) |-> KeptValue(qs, i)]}

\* the values a user of the application moves a widget to: the first or the
\* last option, an empty or a filled text box
UserPicks(q) ==
    IF q.type = "MCQ" THEN {q.options[1], q.options[Len(q.options)]}
    ELSE {<<>>, <<" ", "a", "B", " ">>}

\* Values after the user changed at most one widget
ChangedValues(qs) ==
    {widget} \cup UNION {{[widget EXCEPT ![i] = x] : x \in UserPicks(qs[i])} :
                         i \in 1..Len(qs)}

\* rerun()
rerun(trigger) == ~trigger

\* main() with "Generate Quiz" pressed
RunGenerate ==
    \E x \in AppOutcomes :
        /\ quiz_submitted' = FALSE
        /\ quiz_generated' = x.out.ret
        /\ rerun_trigger' = rerun(rerun_trigger)
        /\ questions' = x.out.questions
        /\ results' = x.out.results
        /\ gen_log' = x.out.log
        /\ ret' = Bool(x.out.ret)
        /\ op' = Call("run_generate", x.args, NothingFound)
        /\ IF QuizShown(x.out.ret, x.out.questions)
           THEN \E values \in FreshValues(x.out.questions) :
                   /\ user_answers' = attempt_quiz(x.out.questions, x.out.user_answers, values)
                   /\ widget' = values
           ELSE /\ user_answers' = x.out.user_answers
                /\ widget' = <<>>
        /\ UNCHANGED <<llm_script, llm_calls, trace, fs>>

\* main() after the user changed a widget (or anything else that is no button)
RunRerender ==
    /\ QuizShown(quiz_generated, questions)
    /\ Len(user_answers) < MaxRenders * Len(questions)
    /\ \E values \in ChangedValues(questions) :
        /\ user_answers' = attempt_quiz(questions, user_answers, values)
        /\ widget' = values
    /\ op' = Call("run_rerender", NoArgs, NothingFound)
    /\ UNCHANGED <<questions, results, ret, gen_log, llm_script, llm_calls,
                   quiz_generated, quiz_submitted, rerun_trigger,
                   trace, fs>>

\* main() with "Submit Quiz" pressed
RunSubmit ==
    /\ QuizShown(quiz_generated, questions)
    /\ Len(user_answers) < MaxRenders * Len(questions)
    /\ user_answers' = attempt_quiz(questions, user_answers, widget)
    /\ results' = evaluate_quiz(questions, user_answers')
    /\ quiz_submitted' = TRUE
    /\ rerun_trigger' = rerun(rerun_trigger)
    /\ op' = Call("run_submit", NoArgs, NothingFound)
    /\ UNCHANGED <<questions, ret, gen_log, llm_script, llm_calls,
                   quiz_generated, widget,
                   trace, fs>>

AppNext == RunGenerate \/ RunRerender \/ RunSubmit

AppSpec == Init /\ [][AppNext]_vars

----------------------------------------------------------------------------
(* Vocabulary of the properties *)

Last(script) == script[Len(script)]

\* a script of failing responses followed by one model output
FailsThenAnswers(script) ==
    /\ Len(script) >= 1
    /\ Last(script).tag = "json"
    /\ \A i \in 1..(Len(script) - 1) : script[i].tag \in {"raise", "garbage"}

\* the last call generated one question with a kept client
HarnessedOne ==
    /\ op.name = "generate_questions"
    /\ op.args.num_questions = 1
    /\ llm_script # <<>>

\* the last call generated one question of this type with a kept client
Harnessed(question_type) ==
    /\ HarnessedOne
    /\ op.args.question_type = question_type

HasFourOptionsAndAnswer(x) ==
    /\ Len(x.options) = 4
    /\ \E i \in 1..Len(x.options) : x.options[i] = x.correct_answer

HasBlank(text) ==
    \E i \in 1..Len(text) :
        /\ i + 4 <= Len(text)
        /\ \A j \in i..(i + 4) : text[j] = "_"

\* the text the schema keeps for a question field
QuestionText(v) ==
    IF v.tag = "str" THEN v.text
    ELSE IF v.key = "description" THEN v.val ELSE <<"{">> \o v.val \o <<"}">>

\* the record generate_questions is to store for a generated question
NormalizedRecord(question_type, q) ==
    IF question_type = "Multiple Choice"
    THEN [type |-> "MCQ", question |-> q.question, options |-> q.options,
          correct_answer |-> q.correct_answer]
    ELSE [type |-> "Fill in the Blank", question |-> q.question,
          correct_answer |-> q.answer]

----------------------------------------------------------------------------
(* Properties of the generator (GenSpec) *)

\* C1: with a client that fails on its first k calls and then returns a valid
\* MCQ, generate_mcq succeeds iff k < MAX_RETRIES, fails with the
\* exhausted-retry error iff k >= MAX_RETRIES, and the client is invoked
\* exactly min(k + 1, MAX_RETRIES) times.
C1_RetryBound ==
    (/\ Harnessed("Multiple Choice")
     /\ FailsThenAnswers(llm_script)
     /\ DOMAIN Last(llm_script).obj = McqFields
     /\ HasFourOptionsAndAnswer(Last(llm_script).obj))
    => LET k == Len(llm_script) - 1
           out == gen_log[1]
       IN  /\ out.ok <=> k < MAX_RETRIES
           /\ (~out.ok /\ out.err.kind = "exhausted") <=> k >= MAX_RETRIES
           /\ llm_calls = Min(k + 1, MAX_RETRIES)

\* C1 witness: the client would have answered on call MAX_RETRIES + 1; the
\* generator gave up after MAX_RETRIES calls.
C1_Witness ==
    /\ Harnessed("Multiple Choice")
    /\ FailsThenAnswers(llm_script)
    /\ DOMAIN Last(llm_script).obj = McqFields
    /\ HasFourOptionsAndAnswer(Last(llm_script).obj)
    /\ Len(llm_script) - 1 = MAX_RETRIES
    /\ ~gen_log[1].ok
    /\ gen_log[1].err.kind = "exhausted"
    /\ llm_calls = MAX_RETRIES

\* the first response that parses for the called type is the script's last
\* one, it comes within the retry budget, and it fails the domain check
ParsedButInvalid(question_type) ==
    /\ Harnessed(question_type)
    /\ FailsThenAnswers(llm_script)
    /\ Len(llm_script) <= MAX_RETRIES
    /\ IF question_type = "Multiple Choice"
       THEN /\ DOMAIN Last(llm_script).obj = McqFields
            /\ ~HasFourOptionsAndAnswer(Last(llm_script).obj)
       ELSE /\ DOMAIN Last(llm_script).obj = FillBlankFields
            /\ ~HasBlank(QuestionText(Last(llm_script).obj.question))

\* C2: an attempt that parses but fails the domain check ends the call with
\* a failure at once: the client is not invoked again, whatever is left of
\* the retry budget.
C2_ValidationNotRetried ==
    \A t \in QuestionTypes :
        ParsedButInvalid(t)
        => /\ Len(gen_log) = 1
           /\ ~gen_log[1].ok
           /\ gen_log[1].err.kind = "validation"
           /\ llm_calls = Len(llm_script)
           /\ ret = "False"

\* C2 witness: a fill-blank output without a blank on the second attempt,
\* one attempt still left.
C2_Witness ==
    /\ ParsedButInvalid("Fill in the Blank")
    /\ Len(llm_script) = 2
    /\ Len(llm_script) < MAX_RETRIES
    /\ llm_calls = 2
    /\ ~gen_log[1].ok

\* C3: a question generate_mcq returns has exactly 4 options and its
\* correct_answer among them; a parsed output violating either makes
\* generate_mcq fail; so every MCQ record in questions satisfies both.
C3_McqValid ==
    /\ Harnessed("Multiple Choice")
       => \A i \in 1..Len(gen_log) :
              gen_log[i].ok => HasFourOptionsAndAnswer(gen_log[i].q)
    /\ ParsedButInvalid("Multiple Choice") => (~gen_log[1].ok /\ questions = <<>>)
    /\ \A i \in 1..Len(questions) :
           questions[i].type = "MCQ" => HasFourOptionsAndAnswer(questions[i])

\* C3 witness: four options, the correct answer not one of them: rejected.
C3_Witness ==
    /\ ParsedButInvalid("Multiple Choice")
    /\ Len(Last(llm_script).obj.options) = 4
    /\ ~gen_log[1].ok
    /\ questions = <<>>

\* C4: a question generate_fill_blank returns has the blank marker in its
\* text; a parsed output whose text lacks it makes generate_fill_blank fail.
C4_FillBlankHasMarker ==
    /\ Harnessed("Fill in the Blank")
       => \A i \in 1..Len(gen_log) :
              gen_log[i].ok => HasBlank(gen_log[i].q.question)
    /\ ParsedButInvalid("Fill in the Blank") => (~gen_log[1].ok /\ questions = <<>>)
    /\ \A i \in 1..Len(questions) :
           questions[i].type = "Fill in the Blank" => HasBlank(questions[i].question)

\* C4 witness: a text with four underscores only, rejected on the first call.
C4_Witness ==
    /\ ParsedButInvalid("Fill in the Blank")
    /\ Len(llm_script) = 1
    /\ Contains(QuestionText(Last(llm_script).obj.question), PARTIAL)
    /\ ~gen_log[1].ok
    /\ gen_log[1].err.kind = "validation"

----------------------------------------------------------------------------
(* Properties of the QuizManager (Spec) *)

\* the questions stored are the records of the questions this call generated
StoresThisCallOnly ==
    /\ Len(questions) = Cardinality({i \in 1..Len(gen_log) : gen_log[i].ok})
    /\ \A i \in 1..Len(questions) :
           /\ gen_log[i].ok
           /\ questions[i] = NormalizedRecord(op.args.question_type, gen_log[i].q)

\* C5: whatever the three lists held before, after a generate_questions call
\* user_answers and results are empty and questions holds only what this
\* call generated.
C5_ResetOnRegeneration ==
    op.name = "generate_questions"
    => /\ user_answers = <<>>
       /\ results = <<>>
       /\ StoresThisCallOnly

\* C5 witness: a call that found questions, answers and results of an
\* earlier quiz.
C5_Witness ==
    /\ op.name = "generate_questions"
    /\ op.found.questions > 0
    /\ op.found.user_answers > 0
    /\ op.found.results > 0
    /\ questions # <<>>
    /\ user_answers = <<>>
    /\ results = <<>>

\* C6: when the j-th generator call fails, generate_questions returns false,
\* makes no further generator call, and questions holds the j - 1 questions
\* generated before, in order.
C6_BatchAbort ==
    op.name = "generate_questions"
    => \A j \in 1..Len(gen_log) :
           ~gen_log[j].ok
           => /\ j <= op.args.num_questions
              /\ Len(gen_log) = j
              /\ ret = "False"
              /\ Len(questions) = j - 1
              /\ \A i \in 1..(j - 1) :
                     /\ gen_log[i].ok
                     /\ questions[i] = NormalizedRecord(op.args.question_type, gen_log[i].q)

\* C6 witness: the second of three calls failed; one question is kept and no
\* third call was made.
C6_Witness ==
    /\ op.name = "generate_questions"
    /\ op.args.num_questions = 3
    /\ Len(gen_log) = 2
    /\ ~gen_log[2].ok
    /\ Len(questions) = 1
    /\ ret = "False"

\* C7: generate_questions returns true iff all count generator calls
\* succeeded, and then questions holds the count normalized records in
\* generation order while user_answers and results are empty.
C7_GenerateAll ==
    op.name = "generate_questions"
    => /\ ret = "True"
          <=> /\ Len(gen_log) = op.args.num_questions
              /\ \A i \in 1..Len(gen_log) : gen_log[i].ok
       /\ ret = "True"
          => /\ Len(questions) = op.args.num_questions
             /\ \A i \in 1..Len(questions) :
                    questions[i] = NormalizedRecord(op.args.question_type, gen_log[i].q)
             /\ user_answers = <<>>
             /\ results = <<>>

\* C7 witness: three questions generated, not all the same.
C7_Witness ==
    /\ op.name = "generate_questions"
    /\ ret = "True"
    /\ op.args.num_questions = 3
    /\ Len(questions) = 3
    /\ questions[1] # questions[2]
    /\ questions[1].type = "MCQ"

\* C10: is_correct of an MCQ is true exactly when the user answer is the
\* stored correct_answer verbatim; of a fill-blank question exactly when the
\* two are equal after stripping surrounding whitespace and lower-casing.
C10_EvaluationCorrect ==
    \A i \in 1..Len(results) :
        /\ i <= Len(questions)
        /\ IF questions[i].type = "MCQ"
           THEN results[i].is_correct
                <=> results[i].user_answer = questions[i].correct_answer
           ELSE results[i].is_correct
                <=> Lower(Strip(results[i].user_answer))
                    = Lower(Strip(questions[i].correct_answer))

\* C10 witness: fill-blank answers that differ as typed, in case and in
\* surrounding blanks, and are counted correct.
C10_Witness ==
    \E i \in 1..Len(results) :
        /\ results[i].question_type = "Fill in the Blank"
        /\ results[i].is_correct
        /\ results[i].user_answer # results[i].correct_answer
        /\ Lower(results[i].user_answer) # Lower(results[i].correct_answer)

----------------------------------------------------------------------------
(* Properties of the application (AppSpec) *)

\* C8: once a quiz is generated and rendered, user_answers has one answer per
\* question, the one collected for it.
C8_OneAnswerPerQuestion ==
    QuizShown(quiz_generated, questions)
    => /\ Len(user_answers) = Len(questions)
       /\ \A i \in 1..Len(questions) : user_answers[i] = widget[i]

\* C9: after Submit, result i records the value question i's widget had when
\* Submit was pressed.
C9_SubmittedAnswersCurrent ==
    op.name = "run_submit"
    => /\ Len(results) = Len(questions)
       /\ \A i \in 1..Len(questions) : results[i].user_answer = widget[i]

----------------------------------------------------------------------------
(* Further properties of the generator (GenSpec) *)

\* no text occurs twice in the sequence
PairwiseDistinct(seq) ==
    \A i, j \in 1..Len(seq) : i # j => seq[i] # seq[j]

\* C16: every MCQ generate_mcq returns, and every MCQ record stored in
\* questions, has 4 pairwise distinct options.
C16_McqOptionsDistinct ==
    /\ Harnessed("Multiple Choice")
       => \A i \in 1..Len(gen_log) :
              gen_log[i].ok => /\ Len(gen_log[i].q.options) = 4
                               /\ PairwiseDistinct(gen_log[i].q.options)
    /\ \A i \in 1..Len(questions) :
           questions[i].type = "MCQ" => /\ Len(questions[i].options) = 4
                                        /\ PairwiseDistinct(questions[i].options)

\* the number of non-overlapping blank markers in a text, counted from the left
RECURSIVE CountBlanks(_)
CountBlanks(text) ==
    IF Len(text) < Len(MARKER) THEN 0
    ELSE IF SubSeq(text, 1, Len(MARKER)) = MARKER
         THEN 1 + CountBlanks(SubSeq(text, Len(MARKER) + 1, Len(text)))
         ELSE CountBlanks(Tail(text))

\* C17: every fill-blank question generate_fill_blank returns, and every
\* fill-blank record stored in questions, contains exactly one blank marker;
\* a text with two or more markers is rejected.
C17_ExactlyOneBlank ==
    /\ Harnessed("Fill in the Blank")
       => \A i \in 1..Len(gen_log) :
              gen_log[i].ok => CountBlanks(gen_log[i].q.question) = 1
    /\ \A i \in 1..Len(questions) :
           questions[i].type = "Fill in the Blank"
           => CountBlanks(questions[i].question) = 1

\* the a-th response of the kept client makes the attempt fail
AttemptFails(a) ==
    LET resp == Respond(llm_script, a)
    IN  resp.tag = "raise" \/ ~Parse(op.args.question_type, resp).ok

\* the event is in the trace, at this position
At(i, e) == i \in 1..Len(trace) /\ trace[i] = e

\* C18: when all MAX_RETRIES attempts of a generation fail, the error raised
\* carries the attempt count MAX_RETRIES and wraps the error of the last
\* attempt; nothing is raised before that, and the failure of every attempt
\* is logged after its invocation and before the next attempt starts.
C18_ExhaustedWrapsLast ==
    HarnessedOne
    => LET lastError == AttemptError(Respond(llm_script, MAX_RETRIES))
           exhausted == \A a \in 1..MAX_RETRIES : AttemptFails(a)
       IN  /\ exhausted
              => /\ gen_log[1].err = [kind |-> "exhausted", attempts |-> MAX_RETRIES,
                                      cause |-> lastError]
                 /\ Last(trace) = Event("raise", MAX_RETRIES, lastError)
                 /\ llm_calls = MAX_RETRIES
           /\ \A i \in 1..Len(trace) :
                  trace[i].ev = "raise" => (exhausted /\ i = Len(trace))
           /\ \A a \in 1..llm_calls :
                  AttemptFails(a)
                  => \E i \in 1..Len(trace) :
                         /\ At(i, Event("log_error", a, AttemptError(Respond(llm_script, a))))
                         /\ \E j \in 1..(i - 1) : At(j, Event("invoke", a, "none"))
                         /\ \A k \in 1..Len(trace) :
                                trace[k].attempt = a + 1 => i < k

\* C18 witness: the second attempt failed on parsing, the third on the
\* invocation; the error raised wraps the invocation error.
C18_Witness ==
    /\ HarnessedOne
    /\ \A a \in 1..MAX_RETRIES : AttemptFails(a)
    /\ AttemptError(Respond(llm_script, MAX_RETRIES - 1)) = "parse_error"
    /\ AttemptError(Respond(llm_script, MAX_RETRIES)) = "invoke_error"
    /\ gen_log[1].err.kind = "exhausted"
    /\ gen_log[1].err.cause = "invoke_error"
    /\ Last(trace).ev = "raise"
    /\ Len(trace) = 3 * MAX_RETRIES + 1

\* the client invocations recorded in the trace
Invocations == {i \in 1..Len(trace) : trace[i].ev = "invoke"}

\* C19: every generation terminates: a batch of num_questions questions
\* makes at most num_questions * MAX_RETRIES client invocations (a single
\* generate_mcq / generate_fill_blank at most MAX_RETRIES) and ends with
\* True or False.
C19_BoundedInvocations ==
    (op.name = "generate_questions" /\ llm_script # <<>>)
    => /\ llm_calls <= op.args.num_questions * MAX_RETRIES
       /\ Cardinality(Invocations) = llm_calls
       /\ Len(gen_log) <= op.args.num_questions
       /\ (op.args.num_questions = 1 => llm_calls <= MAX_RETRIES)
       /\ ret \in {"True", "False"}

\* C19 witness: a batch of MaxCount questions, each generated on the last
\* attempt allowed.
C19_Witness ==
    /\ op.name = "generate_questions"
    /\ llm_script # <<>>
    /\ op.args.num_questions = MaxCount
    /\ llm_calls = MaxCount * MAX_RETRIES
    /\ Len(questions) = MaxCount
    /\ ret = "True"

----------------------------------------------------------------------------
(* Further properties of the QuizManager (Spec) *)

\* C11: evaluate_quiz called with as many answers as questions leaves one
\* result per question, in question order: number i, the text, type and
\* correct_answer of question i, the i-th answer, and the options of an MCQ
\* (none for a fill-blank question).
C11_ResultsPairQuestions ==
    (op.name = "evaluate_quiz" /\ Len(user_answers) = Len(questions))
    => /\ Len(results) = Len(questions)
       /\ \A i \in 1..Len(questions) :
              /\ results[i].question_number = i
              /\ results[i].question = questions[i].question
              /\ results[i].question_type = questions[i].type
              /\ results[i].correct_answer = questions[i].correct_answer
              /\ results[i].user_answer = user_answers[i]
              /\ results[i].options = IF questions[i].type = "MCQ"
                                      THEN questions[i].options ELSE <<>>

\* C11 witness: three questions, three answers, three results.
C11_Witness ==
    /\ op.name = "evaluate_quiz"
    /\ Len(questions) = 3
    /\ Len(user_answers) = 3
    /\ Len(results) = 3
    /\ results[3].question_number = 3
    /\ user_answers[1] # user_answers[3]

\* C20: evaluate_quiz truncates silently: whatever the two lengths are, it
\* leaves min(len(questions), len(user_answers)) results, the i-th built from
\* question i and answer i, and returns normally; surplus answers or
\* unanswered questions are dropped, and with no answer collected the
\* results are empty.
C20_EvaluateTruncates ==
    op.name = "evaluate_quiz"
    => /\ ret = "None"
       /\ Len(results) = Min(Len(questions), Len(user_answers))
       /\ \A i \in 1..Len(results) :
              /\ results[i].question_number = i
              /\ results[i].question = questions[i].question
              /\ results[i].correct_answer = questions[i].correct_answer
              /\ results[i].user_answer = user_answers[i]
       /\ (user_answers = <<>> => results = <<>>)

\* C20 witness: one question, three collected answers, one result holding
\* the first answer, which differs from the last one.
C20_Witness ==
    /\ op.name = "evaluate_quiz"
    /\ Len(questions) = 1
    /\ Len(user_answers) = 3
    /\ Len(results) = 1
    /\ results[1].user_answer = user_answers[1]
    /\ user_answers[1] # user_answers[3]

----------------------------------------------------------------------------
(* Further properties of the application (AppSpec) *)

\* C14: after a failed Generate the application has quiz_generated and
\* quiz_submitted false, the quiz form was not rendered (no answer was
\* collected) although a partial question list may remain, and as long as
\* quiz_generated stays false the only run that changes anything is another
\* Generate: no evaluate_quiz, the results stay empty.
C14_FailedGenerateBlocksQuiz ==
    /\ [](ret = "False"
          => /\ op.name = "run_generate"
             /\ ~quiz_generated
             /\ ~quiz_submitted
             /\ ~QuizShown(quiz_generated, questions)
             /\ user_answers = <<>>
             /\ results = <<>>)
    /\ [][~quiz_generated
          => /\ op'.name = "run_generate"
             /\ results' = <<>>
             /\ (quiz_generated' <=> ret' = "True")]_vars

\* C14 witness: a Generate failed on its second question; the first one is
\* still held by the manager and the form is not shown.
C14_Witness ==
    /\ op.name = "run_generate"
    /\ op.args.num_questions >= 2
    /\ ret = "False"
    /\ Len(questions) >= 1
    /\ ~quiz_generated
    /\ ~quiz_submitted
    /\ user_answers = <<>>

----------------------------------------------------------------------------
(* Properties of showing and saving the results (ManagerSpec) *)

\* C12: save_to_csv called while results is empty returns None, writes no
\* file and creates no directory, and leaves questions, user_answers and
\* results as they were.
C12_SaveNothing ==
    [][(op'.name = "save_to_csv" /\ results = <<>>)
       => /\ ret' = "None"
          /\ fs' = fs
          /\ questions' = questions
          /\ user_answers' = user_answers
          /\ results' = results]_vars

\* C12 witness: a quiz was generated and answered but not evaluated; the
\* save returned None and there is still no results directory.
C12_Witness ==
    /\ op.name = "save_to_csv"
    /\ results = <<>>
    /\ questions # <<>>
    /\ user_answers # <<>>
    /\ ret = "None"
    /\ ~fs.dir
    /\ fs.files = {}

\* C13: save_to_csv never raises on a failure of creating the directory or
\* of writing the file: it returns None, or the path of a file it has
\* written.
C13_SaveNeverRaises ==
    op.name = "save_to_csv" => (ret = "None" \/ (fs.dir /\ ret \in fs.files))

\* an evaluation with at least one answer per question has been made since
\* the questions were generated
Evaluated ==
    /\ questions # <<>>
    /\ Len(results) = Len(questions)
    /\ Len(user_answers) >= Len(questions)

\* C15: once evaluate_quiz has run with at least one answer per question,
\* results keeps its value under every later attempt_quiz, evaluate_quiz,
\* generate_result_dataframe and save_to_csv, until the next
\* generate_questions; generate_result_dataframe and save_to_csv change none
\* of questions, user_answers, results.
C15_ResultsStable ==
    /\ [][(Evaluated /\ op'.name # "generate_questions") => results' = results]_vars
    /\ [][op'.name \in {"generate_result_dataframe", "save_to_csv"}
          => /\ questions' = questions
             /\ user_answers' = user_answers
             /\ results' = results]_vars

\* C15 witness: after answers were collected a second time with another
\* value, the quiz was evaluated again: the result still holds the answer of
\* the first collection.
C15_Witness ==
    /\ op.name = "evaluate_quiz"
    /\ Evaluated
    /\ Len(questions) = 1
    /\ Len(user_answers) = 2
    /\ user_answers[1] # user_answers[2]
    /\ results[1].user_answer = user_answers[1]
    /\ fs.files # {}

\* C21: in every state reached by generate_questions, attempt_quiz,
\* evaluate_quiz, generate_result_dataframe and save_to_csv calls, the
\* results refer to the current question list only: there are no more
\* results than questions, and the i-th result has question_number i and the
\* text, type and correct_answer of the current i-th question.
C21_ResultsOfCurrentQuestions ==
    /\ Len(results) <= Len(questions)
    /\ \A i \in 1..Len(results) :
           /\ results[i].question_number = i
           /\ results[i].question = questions[i].question
           /\ results[i].question_type = questions[i].type
           /\ results[i].correct_answer = questions[i].correct_answer

\* C21 witness: an earlier quiz was evaluated and its results saved; then
\* generate_questions produced a new question list and no result of the old
\* quiz is left.
C21_Witness ==
    /\ op.name = "generate_questions"
    /\ fs.files # {}
    /\ questions # <<>>
    /\ results = <<>>
    /\ user_answers = <<>>

====
